---- MODULE Spec2Model ----
(***************************************************************************)
(* A model of finetune.py: the metric computation (count_acc), the         *)
(* finetuning engine (FinetuneModel.tune / test_classifier) and the        *)
(* hyperparameter search coordinator (FinetuneTester.validate / evaluate). *)
(*                                                                         *)
(* Abstractions.  The network and the optimizer are torch objects: the     *)
(* weights are the number of optimizer updates applied to them, and the    *)
(* class the network predicts for a sample depends on the sample and on    *)
(* the weights (Forward).  Scores are exact rationals <<n, d>>; the        *)
(* rounding of float32/float64 arithmetic is not modelled.  The loss is    *)
(* not modelled.  A loader is a sequence of batches, a batch a non-empty   *)
(* sequence of samples <<x, y>> (feature, label).                          *)
(***************************************************************************)
EXTENDS Integers, Sequences, FiniteSets, TLC

\* ------------------------------------------------------------------ bounds
MaxSteps == 3        \* largest step budget S
MaxBatches == 2      \* largest number of batches of the train loader
MaxGrid == 2         \* longest grid
MaxSamples == 4      \* largest evaluation set (metric specification)
MaxPasses == MaxSteps + 3   \* the pass counter saturates here
MaxUpdates == 3      \* update() calls on a client's AverageMeter between resets
MaxValue == 2        \* largest whole value fed to a client's AverageMeter
MaxWeight == 2       \* largest weight n fed to a client's AverageMeter
MaxNameParts == 2    \* most parts of a model name

Classes == {0, 1}            \* a two-class dataset
NumClasses == Cardinality(Classes)
\* Two candidates <<lr, wd>>; the numbers stand for distinct learning rates and
\* weight decays.
Candidates == {<<1, 0>>, <<2, 1>>}
Metrics == {"accuracy", "mean per-class accuracy", "f1"}   \* "f1": any other string
LoaderNames == {"train", "val", "trainval", "test"}
Absent == -1         \* a key a dict does not hold

\* ------------------------------------------------------------ rationals
RECURSIVE GCD(_, _)
GCD(a, b) == IF b = 0 THEN a ELSE GCD(b, a % b)

\* A number is <<n, d>> with d > 0, kept in lowest terms.  d = 0 marks the
\* two values that are no numbers: nan (0/0) and Python's None.
NaN == <<0, 0>>
NoneVal == <<1, 0>>
IsNum(r) == r[2] > 0
Norm(r) == LET g == GCD(r[1], r[2]) IN IF g = 0 THEN r ELSE <<r[1] \div g, r[2] \div g>>
Rat(n) == <<n, 1>>
RatAdd(a, b) == IF IsNum(a) /\ IsNum(b) THEN Norm(<<a[1] * b[2] + b[1] * a[2], a[2] * b[2]>>) ELSE NaN
RatMul(a, b) == IF IsNum(a) /\ IsNum(b) THEN Norm(<<a[1] * b[1], a[2] * b[2]>>) ELSE NaN
\* a / k for an integer k > 0
RatDivInt(a, k) == IF IsNum(a) THEN Norm(<<a[1], a[2] * k>>) ELSE NaN
RatLeq(a, b) == a[1] * b[2] <= b[1] * a[2]
RatLess(a, b) == a[1] * b[2] < b[1] * a[2]

RECURSIVE RatSumSeq(_)
RatSumSeq(s) == IF s = <<>> THEN Rat(0) ELSE RatAdd(Head(s), RatSumSeq(Tail(s)))

RECURSIVE Flatten(_)
Flatten(batches) == IF batches = <<>> THEN <<>> ELSE Head(batches) \o Flatten(Tail(batches))

\* ------------------------------------------------------------ the network
\* output.argmax(dim=1) of self.model(data): the class predicted for feature x
\* by weights that have had w optimizer updates.
Forward(w, x) == (x + w) % NumClasses

\* The predictions and the labels of one batch under weights w.
BatchPreds(w, batch) == [k \in 1 .. Len(batch) |-> Forward(w, batch[k][1])]
BatchLabels(batch) == [k \in 1 .. Len(batch) |-> batch[k][2]]

\* ------------------------------------------------------------ count_acc
Count(S) == Cardinality(S)

\* pred.eq(label.view_as(pred)).to(torch.float32).mean().item()
Accuracy(pred, label) ==
    <<Count({k \in 1 .. Len(pred) : pred[k] = label[k]}), Len(pred)>>

\* sklearn's confusion_matrix(label, pred) with no labels argument: its rows and
\* columns are the classes that occur in label or in pred.
CMClasses(pred, label) == {pred[k] : k \in 1 .. Len(pred)} \cup {label[k] : k \in 1 .. Len(label)}
CMDiag(pred, label, c) == Count({k \in 1 .. Len(label) : label[k] = c /\ pred[k] = c})
CMRowSum(pred, label, c) == Count({k \in 1 .. Len(label) : label[k] = c})

\* Sum of f[c] over the set S (f: class -> number)
RECURSIVE RatSumOver(_, _)
RatSumOver(f, S) ==
    IF S = {} THEN Rat(0)
    ELSE LET c == CHOOSE c \in S : TRUE IN RatAdd(f[c], RatSumOver(f, S \ {c}))

\* cm.diagonal() / cm.sum(axis=1), then .mean(): a row that sums to 0 gives
\* 0/0 = nan, and the mean of a vector holding a nan is nan.
MeanPerClass(pred, label) ==
    LET cls == CMClasses(pred, label)
        recall == [c \in cls |-> <<CMDiag(pred, label, c), CMRowSum(pred, label, c)>>]
    IN  IF \E c \in cls : CMRowSum(pred, label, c) = 0 THEN NaN
        ELSE RatDivInt(RatSumOver([c \in cls |-> Norm(recall[c])], cls), Count(cls))

\* count_acc(pred, label, metric); a metric of neither name falls off the end
\* of the function, which returns None.
count_acc(pred, label, metric) ==
    IF metric = "accuracy" THEN Norm(Accuracy(pred, label))
    ELSE IF metric = "mean per-class accuracy" THEN MeanPerClass(pred, label)
    ELSE NoneVal

\* ------------------------------------------------------------ AverageMeter
\* reset(): val = avg = sum = count = 0
FreshMeter == [val |-> Rat(0), avg |-> Rat(0), sum |-> Rat(0), count |-> 0]

\* update(val, n), its first three statements:
\* self.val = val; self.sum += val * n; self.count += n
MeterAccumulated(m, v, n) ==
    [m EXCEPT !.val = v, !.sum = RatAdd(m.sum, RatMul(v, Rat(n))), !.count = m.count + n]

\* `self.sum / self.count` raises ZeroDivisionError on a count of 0.
DivisionByZero(m) == m.count = 0

\* update(val, n): when the division raises, the three fields are already
\* written and avg keeps its old value.
MeterUpdated(m, v, n) ==
    LET a == MeterAccumulated(m, v, n)
    IN  IF DivisionByZero(a) THEN a ELSE [a EXCEPT !.avg = RatDivInt(a.sum, a.count)]

\* ------------------------------------------------------------------ state
VARIABLES
    grid,            \* FinetuneTester.grid: the sequence of candidates <<lr, wd>>
    steps,           \* the step budget S (FinetuneTester.steps, FinetuneModel.steps)
    metric,          \* the metric string
    loaders,         \* the four loaders, by name
    model_name,      \* FinetuneTester.model_name, as the parts the name is made of
    call,            \* the outermost call in progress, or "none"
    cpc,             \* where validate()/evaluate() stands
    gi,              \* validate: candidates taken from the grid so far
    best_score,      \* validate's local best_score
    model_local,     \* the local variable `model` of validate()/evaluate()
    self_model,      \* FinetuneTester.model: the backbone class instantiated
    feature_dim,     \* FinetuneTester.feature_dim
    finetuner,       \* FinetuneTester.finetuner: whether built, and its head's input size
    best_params,     \* FinetuneTester.best_params
    raised,          \* the exception that ended the last call, or "none"
    ret,             \* what the last call returned
    tpc,             \* where tune()/test_classifier() stands
    step,            \* tune's local step
    running,         \* tune's local running
    pos,             \* batches the current pass has taken from the train loader
    passes,          \* passes started over the train loader (saturates at MaxPasses)
    optSteps,        \* optimizer.step() calls of this tune
    schedSteps,      \* scheduler.step() calls of this tune
    optCfg,          \* <<lr, wd>> the optimizer was built with
    T_max,           \* the T_max the CosineAnnealingLR schedule was built with
    weights,         \* optimizer updates applied to FinetuneModel.model
    trainedOn,       \* the batch (its place in the train loader) of each optimizer step
    trainName,       \* the loader tune optimizes on
    evalName,        \* the loader test_classifier reads
    mode,            \* "train" or "eval" (model.train() / model.eval())
    test_acc,        \* test_classifier's test_acc
    num_data_points, \* test_classifier's num_data_points
    preds,           \* test_classifier's preds, as the batches appended
    labels,          \* test_classifier's labels, as the batches appended
    epos,            \* batches test_classifier has taken from its loader
    done,            \* the call that has just ended (returned or raised), or "none"
    reads,           \* <<call, role, loader>>: the loaders the current call iterated
    meter,           \* an AverageMeter: tune's train_acc, or a client's own
    fed              \* the <<val, n>> of every update of meter since its last reset

inputVars == <<grid, steps, metric, loaders, model_name>>
testerVars == <<cpc, gi, best_score, model_local, self_model, feature_dim, finetuner,
                best_params>>
loopVars == <<step, running, pos, passes, optSteps, schedSteps, optCfg, T_max, trainedOn,
              trainName, meter, fed>>
evalVars == <<test_acc, num_data_points, preds, labels, epos>>
vars == <<inputVars, testerVars, loopVars, evalVars, call, raised, ret, tpc, weights,
          evalName, mode, done, reads>>

\* ------------------------------------------------------ backbone selection
\* `sub in self.model_name`
Contains(name, sub) == \E i \in 1 .. Len(name) : name[i] = sub

\* The chain without its test for 'r18'.
ValidateBackboneNoR18(name) ==
    IF Contains(name, "mimic-chexpert") THEN <<"DenseNetBackbone", 1024>>
    ELSE IF Contains(name, "mimic-cxr") THEN <<"DenseNetBackbone", 1024>>
    ELSE <<"ResNetBackbone", 2048>>

\* validate's chain of tests on the name: the backbone class instantiated
\* and the feature_dim assigned.
ValidateBackbone(name) ==
    IF Contains(name, "mimic-chexpert") THEN <<"DenseNetBackbone", 1024>>
    ELSE IF Contains(name, "mimic-cxr")
    THEN IF Contains(name, "r18") THEN <<"ResNet18Backbone", 512>>
         ELSE <<"DenseNetBackbone", 1024>>
    ELSE <<"ResNetBackbone", 2048>>

\* evaluate's chain of tests on the name.
EvaluateBackbone(name) ==
    IF Contains(name, "mimic-chexpert") THEN <<"DenseNetBackbone", 1024>>
    ELSE IF Contains(name, "mimic-cxr")
    THEN IF Contains(name, "r18") THEN <<"ResNet18Backbone", 512>>
         ELSE <<"DenseNetBackbone", 1024>>
    ELSE <<"ResNetBackbone", 2048>>

\* The torchvision network each backbone class builds.
Architecture(backbone) ==
    CASE backbone = "ResNet18Backbone" -> "resnet18"
      [] backbone = "ResNetBackbone" -> "resnet50"
      [] backbone = "DenseNetBackbone" -> "densenet121"
      [] OTHER -> "none"

\* FinetuneModel(model, ..., feature_dim): the head is
\* nn.Linear(feature_dim, num_classes).
NoFinetuner == [built |-> FALSE, head_in |-> 0]
FinetuneModelWith(fd) == [built |-> TRUE, head_in |-> fd]

\* ------------------------------------------------------------------ inputs
Min(a, b) == IF a <= b THEN a ELSE b

Grids == UNION {[1 .. n -> Candidates] : n \in 0 .. MaxGrid}

Samples == Classes \X Classes

\* The train loader of n batches; batch k holds k samples.
TrainBatch(k) == [j \in 1 .. k |-> <<j % NumClasses, j % NumClasses>>]
TrainLoader(n) == [k \in 1 .. n |-> TrainBatch(k)]
ValLoader == << <<<<0, 0>>, <<1, 1>>>>, <<<<1, 0>>>> >>
TestLoader == << <<<<0, 0>>>>, <<<<1, 1>>, <<0, 1>>>> >>

\* get_train_valid_loader: trainval is drawn from the train and the validation
\* samples together.
LoaderSet(n) ==
    [train |-> TrainLoader(n), val |-> ValLoader,
     trainval |-> TrainLoader(n) \o ValLoader, test |-> TestLoader]

\* Every loader of n samples: every sample sequence, cut into batches every way.
RECURSIVE LoadersOfSize(_)
LoadersOfSize(n) ==
    IF n = 0 THEN {<<>>}
    ELSE UNION {{<<b>> \o rest : b \in [1 .. k -> Samples], rest \in LoadersOfSize(n - k)} :
                k \in 1 .. n}

EvalLoaders == UNION {LoadersOfSize(n) : n \in 1 .. MaxSamples}

\* What a client feeds an AverageMeter: whole numbers and a fraction, with
\* weights from 0 up.
\* A model name is the sequence of its parts; NameParts holds the three
\* substrings the code looks for and one part that contains none of them.
NameParts == {"mimic-chexpert", "mimic-cxr", "r18", "moco-v2"}
ModelNames == UNION {[1 .. n -> NameParts] : n \in 1 .. MaxNameParts}
DefaultModel == <<"moco-v2">>      \* --model, default='moco-v2'

MeterValues == {Rat(v) : v \in 0 .. MaxValue} \cup {<<1, 2>>}
MeterWeights == 0 .. MaxWeight

\* The state no call has touched: FinetuneTester.__init__ (best_params = {}).
Untouched ==
    /\ call = "none" /\ done = "none" /\ raised = "none" /\ ret = NoneVal
    /\ cpc = "idle" /\ gi = 0 /\ best_score = Rat(0) /\ model_local = "unbound"
    /\ self_model = "none" /\ feature_dim = 2048 /\ finetuner = NoFinetuner
    /\ best_params = [lr |-> Absent, wd |-> Absent]
    /\ tpc = "idle" /\ step = 0 /\ running = FALSE /\ pos = 0 /\ passes = 0
    /\ optSteps = 0 /\ schedSteps = 0 /\ optCfg = <<0, 0>> /\ T_max = 0 /\ weights = 0
    /\ trainedOn = <<>> /\ trainName = "train" /\ evalName = "val" /\ mode = "train"
    /\ test_acc = Rat(0) /\ num_data_points = 0 /\ preds = <<>> /\ labels = <<>>
    /\ epos = 0 /\ reads = {}
    /\ meter = FreshMeter /\ fed = <<>>

Init ==
    /\ grid \in Grids
    /\ steps \in 0 .. MaxSteps
    /\ metric \in Metrics
    /\ loaders \in {LoaderSet(n) : n \in 0 .. MaxBatches}
    /\ model_name = DefaultModel
    /\ Untouched

\* The metric computations alone, over every evaluation set.
InitEval ==
    /\ grid = <<>>
    /\ steps = 0
    /\ metric \in Metrics
    /\ loaders \in {[train |-> <<>>, val |-> <<>>, trainval |-> <<>>, test |-> l] :
                    l \in EvalLoaders}
    /\ model_name = DefaultModel
    /\ Untouched

\* A client's AverageMeter alone, just constructed.
InitMeter ==
    /\ grid = <<>>
    /\ steps = 0
    /\ metric = "accuracy"
    /\ loaders = [train |-> <<>>, val |-> <<>>, trainval |-> <<>>, test |-> <<>>]
    /\ model_name = DefaultModel
    /\ Untouched

\* The coordinator alone, over every model name.
InitBackbone ==
    /\ grid \in Grids
    /\ steps = 0
    /\ metric = "accuracy"
    /\ loaders = LoaderSet(0)
    /\ model_name \in ModelNames
    /\ Untouched

\* ------------------------------------------------- FinetuneModel: the engine
\* FinetuneModel.__init__: a fresh backbone + head, in training mode.
NewFinetuneModel == weights' = 0

\* tune, up to the loop: a new optimizer and schedule, step = 0, running = True.
TuneEnter(tn, en, lr, wd) ==
    /\ optCfg' = <<lr, wd>>
    /\ T_max' = steps
    /\ optSteps' = 0 /\ schedSteps' = 0
    /\ mode' = "train"
    /\ step' = 0 /\ running' = TRUE
    /\ pos' = 0 /\ passes' = 0 /\ trainedOn' = <<>>
    /\ trainName' = tn /\ evalName' = en
    /\ meter' = FreshMeter /\ fed' = <<>>
    /\ tpc' = "while"

\* test_classifier, up to its loop over data_loader; rs: the reads so far.
TestEnter(c, en, rs) ==
    /\ mode' = "eval"
    /\ test_acc' = Rat(0) /\ num_data_points' = 0
    /\ preds' = <<>> /\ labels' = <<>>
    /\ epos' = 0
    /\ reads' = rs \cup {<<c, "score", en>>}
    /\ tpc' = "test"

\* The locals of tune and of test_classifier go with their frames when the
\* call returns or raises.
FramesGone ==
    /\ step' = 0 /\ running' = FALSE /\ pos' = 0 /\ passes' = 0
    /\ optSteps' = 0 /\ schedSteps' = 0 /\ optCfg' = <<0, 0>> /\ T_max' = 0
    /\ trainedOn' = <<>> /\ trainName' = "train" /\ evalName' = "val"
    /\ test_acc' = Rat(0) /\ num_data_points' = 0
    /\ preds' = <<>> /\ labels' = <<>> /\ epos' = 0
    /\ meter' = FreshMeter /\ fed' = <<>>

\* The budget test off by one: `if step > self.steps`.
BudgetReachedLate(st, S) == st > S

\* `if step >= self.steps`
BudgetReached(st, S) == st >= S

\* `while running:` starts a pass over train_loader, or leaves the loop for
\* `self.test_classifier(test_loader)`.
TuneWhile ==
    /\ tpc = "while"
    /\ IF running
       THEN /\ tpc' = "for"
            /\ pos' = 0
            /\ passes' = Min(passes + 1, MaxPasses)
            /\ reads' = reads \cup {<<call, "optimize", trainName>>}
            /\ UNCHANGED <<evalVars, mode>>
       ELSE /\ TestEnter(call, evalName, reads)
            /\ UNCHANGED <<pos, passes>>
    /\ UNCHANGED <<inputVars, testerVars, step, running, optSteps, schedSteps, optCfg, T_max,
                   trainedOn, trainName, call, raised, ret, weights, evalName, done,
                   meter, fed>>

\* `for data, targets in train_loader:` takes the next batch, if there is one,
\* and only then tests the budget.
TuneFor ==
    /\ tpc = "for"
    /\ IF pos = Len(loaders[trainName])
       THEN /\ tpc' = "while"
            /\ UNCHANGED <<pos, running>>
       ELSE /\ pos' = pos + 1
            /\ IF BudgetReached(step, steps)
               THEN running' = FALSE /\ tpc' = "while"
               ELSE tpc' = "body" /\ UNCHANGED running
    /\ UNCHANGED <<inputVars, testerVars, evalVars, step, passes, optSteps, schedSteps,
                   optCfg, T_max, trainedOn, trainName, call, raised, ret, weights, evalName,
                   mode, done, reads, meter, fed>>

\* zero_grad, forward, loss, backward, optimizer.step()
TuneOptimizerStep ==
    /\ tpc = "body"
    /\ weights' = weights + 1
    /\ optSteps' = optSteps + 1
    /\ trainedOn' = Append(trainedOn, pos)
    /\ tpc' = "stepped"
    /\ UNCHANGED <<inputVars, testerVars, evalVars, step, running, pos, passes, schedSteps,
                   optCfg, T_max, trainName, call, raised, ret, evalName, mode, done, reads,
                   meter, fed>>

\* `acc = 100. * count_acc(output, targets, "accuracy")` of the batch just
\* optimized on; output was computed before optimizer.step().
TrainBatchAcc ==
    LET batch == loaders[trainName][pos]
    IN  RatMul(Rat(100), count_acc(BatchPreds(weights - 1, batch), BatchLabels(batch), "accuracy"))

\* The rest of the loop body with scheduler.step() left out.
TuneNoSchedulerStep ==
    /\ tpc = "stepped"
    /\ meter' = MeterUpdated(meter, TrainBatchAcc, Len(loaders[trainName][pos]))
    /\ fed' = Append(fed, <<TrainBatchAcc, Len(loaders[trainName][pos])>>)
    /\ step' = step + 1
    /\ tpc' = "for"
    /\ UNCHANGED <<inputVars, testerVars, evalVars, running, pos, passes, optSteps,
                   schedSteps, optCfg, T_max, trainedOn, trainName, call, raised, ret,
                   weights, evalName, mode, done, reads>>

\* train_acc.update(acc, data.size(0)) and the progress bar, scheduler.step(),
\* step += 1.  A batch holds at least one sample, so the update cannot raise.
TuneSchedulerStep ==
    /\ tpc = "stepped"
    /\ meter' = MeterUpdated(meter, TrainBatchAcc, Len(loaders[trainName][pos]))
    /\ fed' = Append(fed, <<TrainBatchAcc, Len(loaders[trainName][pos])>>)
    /\ schedSteps' = schedSteps + 1
    /\ step' = step + 1
    /\ tpc' = "for"
    /\ UNCHANGED <<inputVars, testerVars, evalVars, running, pos, passes, optSteps, optCfg, T_max,
                   trainedOn, trainName, call, raised, ret, weights, evalName, mode, done,
                   reads>>

\* The batch's score without its weight: `ta *= data.size(0)` left out.
UnweightedBatchAcc(pred, label, m) == RatMul(Rat(100), count_acc(pred, label, m))

\* `ta = 100. * count_acc(...); ta *= data.size(0)`
WeightedBatchAcc(pred, label, m) ==
    RatMul(RatMul(Rat(100), count_acc(pred, label, m)), Rat(Len(pred)))

\* One batch of test_classifier's loop.
TestBatch ==
    /\ tpc = "test"
    /\ epos < Len(loaders[evalName])
    /\ LET batch == loaders[evalName][epos + 1]
           p == BatchPreds(weights, batch)
           l == BatchLabels(batch)
       IN  /\ num_data_points' = num_data_points + Len(batch)
           /\ IF metric = "accuracy"
              THEN /\ test_acc' = RatAdd(test_acc, WeightedBatchAcc(p, l, metric))
                   /\ UNCHANGED <<preds, labels>>
              ELSE IF metric = "mean per-class accuracy"
              THEN /\ preds' = Append(preds, p)
                   /\ labels' = Append(labels, l)
                   /\ UNCHANGED test_acc
              ELSE UNCHANGED <<test_acc, preds, labels>>
    /\ epos' = epos + 1
    /\ UNCHANGED <<inputVars, testerVars, loopVars, call, raised, ret, tpc, weights,
                   evalName, mode, done, reads>>

\* What the code after the loop raises on a loader that gave no batch:
\* `test_acc /= num_data_points` and `test_loss /= num_data_points` divide by
\* zero, torch.cat of an empty list is a RuntimeError.
TestError(m, n) ==
    IF n > 0 THEN "none"
    ELSE IF m = "mean per-class accuracy" THEN "RuntimeError"
    ELSE "ZeroDivisionError"

\* The score after the loop with 'mean per-class accuracy' treated like
\* 'accuracy': computed per batch, weighted by the batch size and averaged.
FinalScorePerBatch(m, acc, n, ps, ls) ==
    IF m = "accuracy" THEN RatDivInt(acc, n)
    ELSE IF m = "mean per-class accuracy"
    THEN RatDivInt(RatSumSeq([b \in 1 .. Len(ps) |->
                                 RatMul(RatMul(Rat(100), count_acc(ps[b], ls[b], m)),
                                        Rat(Len(ps[b])))]), n)
    ELSE acc

\* The score after the loop; a metric of neither name leaves test_acc at 0.
FinalScore(m, acc, n, ps, ls) ==
    IF m = "accuracy" THEN RatDivInt(acc, n)
    ELSE IF m = "mean per-class accuracy"
    THEN RatMul(Rat(100), count_acc(Flatten(ps), Flatten(ls), m))
    ELSE acc

\* test_classifier after its loop.
TestFinish ==
    /\ tpc = "test"
    /\ epos = Len(loaders[evalName])
    /\ IF TestError(metric, num_data_points) # "none"
       THEN /\ raised' = TestError(metric, num_data_points)
            /\ done' = call
            /\ call' = "none"
            /\ tpc' = "idle"
            /\ cpc' = "idle"
            /\ FramesGone
            /\ UNCHANGED mode
       ELSE /\ test_acc' = FinalScore(metric, test_acc, num_data_points, preds, labels)
            /\ mode' = "train"
            /\ tpc' = "return"
            /\ UNCHANGED <<raised, done, call, cpc, loopVars, num_data_points, preds,
                           labels, epos, evalName>>
    /\ UNCHANGED <<inputVars, gi, best_score, model_local, self_model, feature_dim, finetuner,
                   best_params, ret, weights, reads>>

\* `if val_acc > best_score`
Improves(val_acc, best) == IsNum(val_acc) /\ RatLess(best, val_acc)

\* `return test_loss, test_acc`, `return val_acc`, and what the caller does with
\* the score: validate() compares it with best_score and goes on with the grid,
\* evaluate() returns it.
Return ==
    /\ tpc = "return"
    /\ tpc' = "idle"
    /\ FramesGone
    /\ IF call = "validate"
       THEN /\ IF Improves(test_acc, best_score)
               THEN /\ best_score' = test_acc
                    /\ best_params' = [lr |-> grid[gi][1], wd |-> grid[gi][2]]
               ELSE UNCHANGED <<best_score, best_params>>
            /\ cpc' = "loop"
            /\ UNCHANGED <<call, done, ret>>
       ELSE /\ ret' = test_acc
            /\ done' = call
            /\ call' = "none"
            /\ cpc' = "idle"
            /\ UNCHANGED <<best_score, best_params>>
    /\ UNCHANGED <<inputVars, gi, model_local, self_model, feature_dim, finetuner, raised, weights,
                   mode, reads>>

\* A client builds a FinetuneModel and calls tune on two of the loaders.
TuneCall ==
    /\ call = "none"
    /\ \E tn \in {"train", "trainval"}, en \in {"val", "test"}, c \in Candidates :
           TuneEnter(tn, en, c[1], c[2])
    /\ NewFinetuneModel
    /\ call' = "tune"
    /\ raised' = "none" /\ ret' = NoneVal /\ done' = "none" /\ reads' = {}
    /\ UNCHANGED <<inputVars, testerVars, evalVars>>

\* A client builds a FinetuneModel and calls test_classifier on a loader.
TestClassifierCall ==
    /\ call = "none"
    /\ \E en \in LoaderNames : evalName' = en /\ TestEnter("test_classifier", en, {})
    /\ NewFinetuneModel
    /\ call' = "test_classifier"
    /\ raised' = "none" /\ ret' = NoneVal /\ done' = "none"
    /\ UNCHANGED <<inputVars, testerVars, loopVars>>

\* A client calls count_acc on the first batch of a loader, as predicted by a
\* fresh model.
CountAccCall ==
    /\ call = "none"
    /\ \E en \in LoaderNames :
           /\ loaders[en] # <<>>
           /\ ret' = count_acc(BatchPreds(0, loaders[en][1]), BatchLabels(loaders[en][1]),
                               metric)
    /\ done' = "count_acc"
    /\ raised' = "none" /\ reads' = {}
    /\ UNCHANGED <<inputVars, testerVars, loopVars, evalVars, call, tpc, weights,
                   evalName, mode>>

\* A client calls reset() on its AverageMeter.
MeterReset ==
    /\ call = "none"
    /\ meter' = FreshMeter
    /\ fed' = <<>>
    /\ raised' = "none"
    /\ done' = "reset"
    /\ UNCHANGED <<inputVars, testerVars, evalVars, step, running, pos, passes, optSteps,
                   schedSteps, optCfg, T_max, trainedOn, trainName, call, ret, tpc, weights,
                   evalName, mode, reads>>

\* A client calls update(val, n) on its AverageMeter.
MeterUpdate ==
    /\ call = "none"
    /\ Len(fed) < MaxUpdates
    /\ \E v \in MeterValues, n \in MeterWeights :
          /\ meter' = MeterUpdated(meter, v, n)
          /\ fed' = Append(fed, <<v, n>>)
          /\ raised' = IF DivisionByZero(MeterAccumulated(meter, v, n))
                       THEN "ZeroDivisionError" ELSE "none"
    /\ done' = "update"
    /\ UNCHANGED <<inputVars, testerVars, evalVars, step, running, pos, passes, optSteps,
                   schedSteps, optCfg, T_max, trainedOn, trainName, call, ret, tpc, weights,
                   evalName, mode, reads>>

\* --------------------------------------------- FinetuneTester: the coordinator
\* Reading a local variable: a name the function assigns somewhere is local to
\* it, and reading it before its first assignment raises UnboundLocalError.
IsBound(local) == local # "unbound"

\* validate() is called: best_score = 0, the locals are unbound.
ValidateCall ==
    /\ call = "none"
    /\ call' = "validate"
    /\ cpc' = "loop"
    /\ best_score' = Rat(0)
    /\ gi' = 0
    /\ model_local' = "unbound"
    /\ raised' = "none" /\ ret' = NoneVal /\ done' = "none" /\ reads' = {}
    /\ UNCHANGED <<inputVars, self_model, feature_dim, finetuner, best_params, loopVars,
                   evalVars, tpc,
                   weights, evalName, mode>>

\* One turn of `for i, (lr, wd) in enumerate(self.grid)`, up to the call of
\* tune: the backbone is loaded into self.model, then
\* `model = model.to(args.device)` reads the local `model`.
ValidateNext ==
    /\ call = "validate"
    /\ cpc = "loop"
    /\ IF gi = Len(grid)
       THEN /\ done' = "validate"
            /\ call' = "none"
            /\ cpc' = "idle"
            /\ ret' = NoneVal
            /\ UNCHANGED <<gi, self_model, feature_dim, model_local, finetuner, raised,
                           loopVars, tpc, weights, evalName, mode>>
       ELSE /\ gi' = gi + 1
            /\ self_model' = ValidateBackbone(model_name)[1]
            /\ feature_dim' = ValidateBackbone(model_name)[2]
            /\ IF ~IsBound(model_local)
               THEN /\ raised' = "UnboundLocalError"
                    /\ done' = "validate"
                    /\ call' = "none"
                    /\ cpc' = "idle"
                    /\ UNCHANGED <<model_local, finetuner, ret, loopVars, tpc, weights,
                                   evalName, mode>>
               ELSE /\ model_local' = "on device"
                    /\ finetuner' = FinetuneModelWith(feature_dim')
                    /\ NewFinetuneModel
                    /\ TuneEnter("train", "val", grid[gi + 1][1], grid[gi + 1][2])
                    /\ cpc' = "tuning"
                    /\ UNCHANGED <<raised, done, call, ret>>
    /\ UNCHANGED <<inputVars, best_score, best_params, evalVars, reads>>

\* evaluate() is called: it logs best_params; the locals are unbound.
EvaluateCall ==
    /\ call = "none"
    /\ call' = "evaluate"
    /\ cpc' = "body"
    /\ model_local' = "unbound"
    /\ raised' = "none" /\ ret' = NoneVal /\ done' = "none" /\ reads' = {}
    /\ UNCHANGED <<inputVars, gi, best_score, self_model, feature_dim, finetuner,
                   best_params, loopVars,
                   evalVars, tpc, weights, evalName, mode>>

\* evaluate() up to the call of tune: the backbone, the read of the local
\* `model`, the FinetuneModel, then the arguments of tune, of which
\* self.best_params['lr'] raises KeyError when the key is missing.
EvaluateBody ==
    /\ call = "evaluate"
    /\ cpc = "body"
    /\ self_model' = EvaluateBackbone(model_name)[1]
    /\ feature_dim' = EvaluateBackbone(model_name)[2]
    /\ IF ~IsBound(model_local)
       THEN /\ raised' = "UnboundLocalError"
            /\ done' = "evaluate"
            /\ call' = "none"
            /\ cpc' = "idle"
            /\ UNCHANGED <<model_local, finetuner, loopVars, tpc, weights, evalName, mode>>
       ELSE /\ model_local' = "on device"
            /\ finetuner' = FinetuneModelWith(feature_dim')
            /\ NewFinetuneModel
            /\ IF best_params.lr = Absent \/ best_params.wd = Absent
               THEN /\ raised' = "KeyError"
                    /\ done' = "evaluate"
                    /\ call' = "none"
                    /\ cpc' = "idle"
                    /\ UNCHANGED <<loopVars, tpc, evalName, mode>>
               ELSE /\ TuneEnter("trainval", "test", best_params.lr, best_params.wd)
                    /\ cpc' = "tuning"
                    /\ UNCHANGED <<raised, done, call>>
    /\ UNCHANGED <<inputVars, gi, best_score, best_params, evalVars, ret, reads>>

\* ------------------------------------------------------------ specifications
Next ==
    \/ ValidateCall \/ ValidateNext \/ EvaluateCall \/ EvaluateBody
    \/ TuneCall \/ TuneWhile \/ TuneFor \/ TuneOptimizerStep \/ TuneSchedulerStep
    \/ TestClassifierCall \/ TestBatch \/ TestFinish \/ Return
    \/ CountAccCall

Spec == Init /\ [][Next]_vars

NextEval ==
    \/ TestClassifierCall \/ TestBatch \/ TestFinish \/ Return
    \/ CountAccCall

SpecEval == InitEval /\ [][NextEval]_vars

NextMeter ==
    \/ MeterReset
    \/ MeterUpdate

SpecMeter == InitMeter /\ [][NextMeter]_vars

NextBackbone ==
    \/ ValidateCall
    \/ ValidateNext
    \/ EvaluateCall
    \/ EvaluateBody

SpecBackbone == InitBackbone /\ [][NextBackbone]_vars

\* -------------------------------------------------------------------- claims
\* The score one evaluation pass over `loader` gives weights w, batch by batch
\* as test_classifier runs it.
PassScore(w, loader, m) ==
    LET ps == [b \in 1 .. Len(loader) |-> BatchPreds(w, loader[b])]
        ls == [b \in 1 .. Len(loader) |-> BatchLabels(loader[b])]
        acc == RatSumSeq([b \in 1 .. Len(loader) |-> WeightedBatchAcc(ps[b], ls[b], m)])
    IN  FinalScore(m, IF m = "accuracy" THEN acc ELSE Rat(0), Len(Flatten(loader)), ps, ls)

\* The validation score of a candidate: what tune(train_loader, val_loader, lr, wd)
\* returns, the score of the weights after `steps` updates on the validation loader.
ValScore(i) == PassScore(steps, loaders["val"], metric)

SearchEnded == done = "validate" /\ grid # <<>>
ParamsOf(i) == [lr |-> grid[i][1], wd |-> grid[i][2]]

\* C1: after validate() on a non-empty grid, best_params holds the (lr, wd) of
\* the candidate with the highest validation score, the earliest one in grid
\* order when several share it.
C1_BestParamsIsFirstArgmax ==
    SearchEnded =>
        \E i \in 1 .. Len(grid) :
            /\ best_params = ParamsOf(i)
            /\ \A j \in 1 .. Len(grid) : RatLeq(ValScore(j), ValScore(i))
            /\ \A j \in 1 .. (i - 1) : RatLess(ValScore(j), ValScore(i))

\* C2: validate() and then evaluate() run to completion: neither ends in an
\* exception, validate() has every candidate reach its tune call on the train
\* loader, and evaluate() reaches its tune call on the trainval loader and
\* returns a score in [0,100].
C2_SearchAndFinalRunToCompletion ==
    /\ SearchEnded =>
           /\ raised = "none"
           /\ gi = Len(grid)
           /\ <<"validate", "optimize", "train">> \in reads
    /\ done = "evaluate" =>
           /\ raised = "none"
           /\ <<"evaluate", "optimize", "trainval">> \in reads
           /\ IsNum(ret) /\ RatLeq(Rat(0), ret) /\ RatLeq(ret, Rat(100))

\* C3: after validate() on a non-empty grid, best_params holds an lr and a wd,
\* both of one and the same candidate of the grid.
C3_OneBestParamsSelected ==
    SearchEnded =>
        /\ best_params.lr # Absent
        /\ best_params.wd # Absent
        /\ \E i \in 1 .. Len(grid) : best_params = ParamsOf(i)

\* C4: the tune calls of validate() optimize on the train loader and score on
\* the validation loader, and nothing else; the tune call of evaluate()
\* optimizes on the trainval loader and scores on the test loader, and nothing
\* else.
C4_LoadersOfSearchAndFinal ==
    /\ SearchEnded =>
           reads = {<<"validate", "optimize", "train">>, <<"validate", "score", "val">>}
    /\ done = "evaluate" =>
           reads = {<<"evaluate", "optimize", "trainval">>, <<"evaluate", "score", "test">>}
    /\ \A r \in reads : r[1] = "validate" => r[3] \in {"train", "val"}
    /\ \A r \in reads : r[1] = "evaluate" => r[3] \in {"trainval", "test"}

\* C5: evaluate() called while best_params is not set fails with a
\* ConfigurationError, and makes no tune call: it reads no loader.
C5_EvaluateBeforeSearchIsConfigurationError ==
    (done = "evaluate" /\ best_params.lr = Absent) =>
        /\ raised = "ConfigurationError"
        /\ reads = {}

\* The batch of the train loader (its place in a pass) that optimization step k
\* uses when every pass starts at the first batch and runs through the L
\* batches in order.
CycledBatch(k, L) == ((k - 1) % L) + 1

InTune == tpc \in {"while", "for", "body", "stepped", "test", "return"} /\ call # "test_classifier"
TrainLen == Len(loaders[trainName])

\* C6: with a budget S >= 1 and a train loader of at least one batch, tune
\* performs exactly S optimization steps before it evaluates, never more than S
\* at any moment, and step k uses batch ((k-1) mod L)+1 of the loader: the
\* loader is restarted from its first batch each time it is exhausted.
C6_ExactlySStepsCyclingTheLoader ==
    (InTune /\ steps >= 1 /\ TrainLen >= 1) =>
        /\ optSteps <= steps
        /\ Len(trainedOn) = optSteps
        /\ \A k \in 1 .. Len(trainedOn) : trainedOn[k] = CycledBatch(k, TrainLen)
        /\ tpc \in {"test", "return"} => optSteps = steps
        /\ passes < MaxPasses

\* C6 witness: tune is evaluating after S steps on a loader of fewer than S
\* batches, which it has started more than once.
C6_Witness ==
    /\ call = "tune" /\ tpc = "test"
    /\ TrainLen >= 1 /\ TrainLen < steps
    /\ optSteps = steps /\ passes >= 2

\* C7: with S = 0, whatever the train loader, tune performs no optimization
\* step and no schedule step, leaves its loop for the evaluation pass once the
\* first pass over the train loader has ended, and returns the score of the
\* initial weights.
C7_ZeroBudgetGoesToEvaluation ==
    (InTune /\ steps = 0) =>
        /\ optSteps = 0 /\ schedSteps = 0 /\ weights = 0
        /\ (tpc = "while" /\ passes >= 1) => ~running
        /\ tpc = "return" => test_acc = PassScore(0, loaders[evalName], metric)

ValidMetric(m) == m \in {"accuracy", "mean per-class accuracy"}

\* C8: a metric string other than the two known ones makes count_acc, and the
\* evaluation pass of test_classifier, fail with an UnsupportedMetric error.
C8_UnknownMetricIsUnsupportedMetricError ==
    (~ValidMetric(metric) /\ done \in {"count_acc", "test_classifier"}) =>
        raised = "UnsupportedMetric"

\* The whole evaluation set of the pass in progress, and what the weights
\* predict for it.
EvalSet == Flatten(loaders[evalName])
EvalCorrect == Count({k \in 1 .. Len(EvalSet) : Forward(weights, EvalSet[k][1]) = EvalSet[k][2]})

\* C9: with metric 'accuracy', the score test_classifier returns is
\* 100 x (correct predictions / samples) over the whole evaluation set, however
\* the set is cut into batches, and lies in [0,100].
C9_AccuracyIsGlobalAccuracy ==
    (tpc = "return" /\ metric = "accuracy") =>
        /\ IsNum(test_acc)
        /\ test_acc[1] * Len(EvalSet) = 100 * EvalCorrect * test_acc[2]
        /\ 0 <= test_acc[1] /\ test_acc[1] <= 100 * test_acc[2]

\* C9 witness: an evaluation set cut into two batches of different sizes, some
\* of its samples predicted correctly and some not.
C9_Witness ==
    /\ tpc = "return" /\ metric = "accuracy"
    /\ Len(loaders[evalName]) = 2
    /\ Len(loaders[evalName][1]) # Len(loaders[evalName][2])
    /\ EvalCorrect > 0 /\ EvalCorrect < Len(EvalSet)

\* Over the whole evaluation set: the true instances of class c, and those of
\* them predicted as c.
TrueCount(c) == Count({k \in 1 .. Len(EvalSet) : EvalSet[k][2] = c})
HitCount(c) == Count({k \in 1 .. Len(EvalSet) :
                         EvalSet[k][2] = c /\ Forward(weights, EvalSet[k][1]) = c})
PresentClasses ==
    {EvalSet[k][2] : k \in 1 .. Len(EvalSet)}
        \cup {Forward(weights, EvalSet[k][1]) : k \in 1 .. Len(EvalSet)}

RECURSIVE ProdTrue(_)
ProdTrue(S) == IF S = {} THEN 1 ELSE LET c == CHOOSE c \in S : TRUE IN TrueCount(c) * ProdTrue(S \ {c})

\* sum over c in S of HitCount(c) / TrueCount(c), times ProdTrue(all)
RECURSIVE RecallSumTimesProd(_, _)
RecallSumTimesProd(S, all) ==
    IF S = {} THEN 0
    ELSE LET c == CHOOSE c \in S : TRUE
         IN  HitCount(c) * ProdTrue(all \ {c}) + RecallSumTimesProd(S \ {c}, all)

\* C10: with metric 'mean per-class accuracy', the score test_classifier
\* returns depends only on the whole evaluation set, not on its batches: it is
\* 100 x the unweighted mean, over the classes that occur, of (correct
\* predictions of the class / true instances of the class), and nan exactly
\* when a class that occurs has no true instance; when every class has true
\* instances it is 100 if every prediction is right and 0 if none is.
C10_MeanPerClassOverWholeSet ==
    (tpc = "return" /\ metric = "mean per-class accuracy") =>
        /\ IsNum(test_acc) <=> \A c \in PresentClasses : TrueCount(c) > 0
        /\ ~IsNum(test_acc) => test_acc = NaN
        /\ IsNum(test_acc) =>
               test_acc[1] * Count(PresentClasses) * ProdTrue(PresentClasses)
                   = 100 * RecallSumTimesProd(PresentClasses, PresentClasses) * test_acc[2]
        /\ (\A c \in Classes : TrueCount(c) > 0 /\ HitCount(c) = TrueCount(c))
               => test_acc = Rat(100)
        /\ (\A c \in Classes : TrueCount(c) > 0 /\ HitCount(c) = 0)
               => test_acc = Rat(0)

\* C10 witness: both classes have true instances, the set is cut into two or
\* more batches, and the recalls of the classes differ.
C10_Witness ==
    /\ tpc = "return" /\ metric = "mean per-class accuracy"
    /\ Len(loaders[evalName]) >= 2
    /\ \A c \in Classes : TrueCount(c) > 0
    /\ \E c, d \in Classes : HitCount(c) * TrueCount(d) # HitCount(d) * TrueCount(c)

\* ---------------------------------------------------------------- C11
\* The weights and the weighted values fed to the meter since its last reset.
RECURSIVE SumOfWeights(_)
SumOfWeights(f) == IF f = <<>> THEN 0 ELSE Head(f)[2] + SumOfWeights(Tail(f))

RECURSIVE SumOfWeighted(_)
SumOfWeighted(f) ==
    IF f = <<>> THEN Rat(0)
    ELSE RatAdd(RatMul(Head(f)[1], Rat(Head(f)[2])), SumOfWeighted(Tail(f)))

\* The updates fed since the last reset, those of weight 0 left out.
HasWeight(u) == u[2] > 0
WeightedOnly(f) == SelectSeq(f, HasWeight)

\* The average the meter holds after the updates f: the weighted mean, and 0
\* while nothing of weight has been fed.
MeanOf(f) ==
    IF SumOfWeights(f) = 0 THEN Rat(0) ELSE RatDivInt(SumOfWeighted(f), SumOfWeights(f))

\* The three sums of the claim, which hold in every state of the meter.
MeterSums ==
    /\ meter.count = SumOfWeights(fed)
    /\ meter.sum = SumOfWeighted(fed)
    /\ RatMul(meter.avg, Rat(meter.count)) = meter.sum

\* C11: after any updates since the last reset, count is the sum of the
\* weights, sum is the sum of value * weight and avg * count = sum; an update
\* of weight 0 leaves the average as it was (the average is that of the
\* updates of positive weight alone) and no update raises ZeroDivisionError,
\* not even on a meter whose count is 0.
C11_MeterSumsAndZeroWeightIsNoOp ==
    /\ MeterSums
    /\ meter.avg = MeanOf(WeightedOnly(fed))
    /\ raised # "ZeroDivisionError"

\* ---------------------------------------------------------------- C12
\* The table of the claim: the architecture and the embedding dimension of a
\* model name, by the substrings it contains.
TableChoice(name) ==
    LET chexpert == Contains(name, "mimic-chexpert")
        cxr == Contains(name, "mimic-cxr")
        r18 == Contains(name, "r18")
    IN  IF chexpert THEN <<"densenet121", 1024>>
        ELSE IF cxr /\ r18 THEN <<"resnet18", 512>>
        ELSE IF cxr THEN <<"densenet121", 1024>>
        ELSE <<"resnet50", 2048>>

\* validate() has tried a candidate, or evaluate() has run.
BackboneChosen == (done = "validate" /\ grid # <<>>) \/ done = "evaluate"

LoopExited == InTune /\ tpc \in {"test", "return"}

\* C13: in tune the schedule is stepped once per optimization step and after
\* it.  In every state of tune the schedule steps are as many as the
\* optimizer steps or one fewer, and one fewer exactly between optimizer.step()
\* and scheduler.step() of the same pass through the loop body; there is no
\* schedule step before the first optimizer step; once the loop is left both
\* counts equal the step counter, which is S = T_max.
C13_ScheduleStepsFollowOptimizerSteps ==
    InTune =>
        /\ schedSteps \in {optSteps, optSteps - 1}
        /\ (schedSteps = optSteps - 1) <=> (tpc = "stepped")
        /\ optSteps = 0 => schedSteps = 0
        /\ optSteps = IF tpc = "stepped" THEN step + 1 ELSE step
        /\ schedSteps = step
        /\ T_max = steps
        /\ LoopExited => optSteps = step /\ schedSteps = step /\ step = steps
                          /\ schedSteps = T_max

\* tune has left the loop after two or more optimization steps, each followed
\* by its schedule step.
C13_Witness ==
    /\ call = "tune" /\ LoopExited
    /\ steps >= 2 /\ optSteps = steps /\ schedSteps = steps /\ T_max = steps

====
